---- MODULE Spec2Model ----
(***************************************************************************)
(* CloudVault (src/server.js): a single-process file vault.  The model     *)
(* covers the size codec, the multipart decoder, the metadata store        *)
(* (cloudvault-data.json) and the upload / download / delete handlers of   *)
(* requestHandler, one action per callback of the event loop.              *)
(*                                                                         *)
(* Numbers.  TLC integers are 32 bits wide and the capacity is 25 * 1024^3 *)
(* bytes, so a byte count is a pair [hi, lo] that stands for               *)
(* hi * 1024^2 + lo with 0 <= lo < 1024^2.  JavaScript computes the sizes  *)
(* in doubles; the model computes them exactly (parseFileSize returns      *)
(* hundredths of a byte), which agrees with the doubles except where a     *)
(* sum lies within a rounding error of the value it is compared with.      *)
(*                                                                         *)
(* Bytes.  A byte is a one-token string ("CR", "LF", "DQ" for the double   *)
(* quote, "-", "a", ...).  A Buffer is [data, run]: the sequence of its    *)
(* bytes, in which the token ZEROS stands for `run` consecutive NUL bytes  *)
(* (a large payload).  No pattern the decoder searches for holds a NUL, so *)
(* a match never overlaps a ZEROS token, and an offset of the source is an *)
(* index into data (0-based, as in the source).                            *)
(***************************************************************************)
EXTENDS Integers, Sequences, FiniteSets, TLC

VARIABLES files, disk, now, conn, nreq, codec

vars == <<files, disk, now, conn, nreq, codec>>

-----------------------------------------------------------------------------
(* Byte counts wider than 32 bits                                          *)

k == 1024

Limb == k * k

Big(hi, lo) == [hi |-> hi, lo |-> lo]

ToBig(n) == Big(n \div Limb, n % Limb)

BigAdd(a, b) == Big(a.hi + b.hi + (a.lo + b.lo) \div Limb, (a.lo + b.lo) % Limb)

BigLE(a, b) == a.hi < b.hi \/ (a.hi = b.hi /\ a.lo <= b.lo)

BigLT(a, b) == ~BigLE(b, a)

\* 100 * a: a byte count in hundredths of a byte
Hundredths(a) == Big(100 * a.hi + (100 * a.lo) \div Limb, (100 * a.lo) % Limb)

\* a - n for a small n <= a
BigMinus(a, n) ==
    IF a.lo >= n THEN Big(a.hi, a.lo - n) ELSE Big(a.hi - 1, a.lo + Limb - n)

RECURSIVE Pow(_, _)
Pow(b, e) == IF e = 0 THEN 1 ELSE b * Pow(b, e - 1)

-----------------------------------------------------------------------------
(* Size codec: formatFileSize, parseFileSize, getTotalStorageUsed.  A size *)
(* string "2.4 MB" is [num |-> 240, unit |-> "MB"]: num is the number in   *)
(* front of the unit, in hundredths.                                       *)

sizes == <<"Bytes", "KB", "MB", "GB">>

\* Math.floor(Math.log(bytes) / Math.log(k)) for bytes > 0
RECURSIVE FloorLogK(_)
FloorLogK(n) == IF n < k THEN 0 ELSE 1 + FloorLogK(n \div k)

UnitIndex(bytes) ==
    IF bytes.hi = 0 THEN FloorLogK(bytes.lo) ELSE 2 + FloorLogK(bytes.hi)

\* (bytes / Math.pow(k, i)).toFixed(2), in hundredths: the quotient is an
\* exact double, and toFixed rounds it to the nearest hundredth, a tie upwards
ToFixed2(bytes, i) ==
    IF i < 2
    THEN (200 * bytes.lo + Pow(k, i)) \div (2 * Pow(k, i))
    ELSE (200 * bytes.hi + Pow(k, i - 2) + (200 * bytes.lo) \div Limb)
             \div (2 * Pow(k, i - 2))

formatFileSize(bytes) ==
    IF bytes = Big(0, 0) THEN [num |-> 0, unit |-> "Bytes"]
    ELSE LET i == UnitIndex(bytes)
         IN  [num  |-> ToFixed2(bytes, i),
              unit |-> IF i < Len(sizes) THEN sizes[i + 1] ELSE "undefined"]

\* the result in hundredths of a byte
parseFileSize(sizeStr) ==
    CASE sizeStr.unit = "Bytes" -> ToBig(sizeStr.num)
      [] sizeStr.unit = "KB"    -> ToBig(sizeStr.num * 1024)
      [] sizeStr.unit = "MB"    -> Big(sizeStr.num, 0)
      [] sizeStr.unit = "GB"    -> Big(sizeStr.num * 1024, 0)
      [] OTHER                  -> Big(0, 0)

RECURSIVE SumSizes(_)
SumSizes(fs) ==
    IF fs = <<>> THEN Big(0, 0)
    ELSE BigAdd(SumSizes(SubSeq(fs, 1, Len(fs) - 1)), parseFileSize(fs[Len(fs)].size))

-----------------------------------------------------------------------------
(* Buffers and the searches of parseMultipart                              *)

ZEROS == "NUL*"

Buf(data, run) == [data |-> data, run |-> run]

Bytes(data) == Buf(data, Big(0, 0))

HasZeros(data) == \E j \in 1..Len(data) : data[j] = ZEROS

\* Buffer.length
ByteLength(buf) ==
    LET plain == Cardinality({j \in 1..Len(buf.data) : buf.data[j] # ZEROS})
    IN  IF HasZeros(buf.data) THEN BigAdd(ToBig(plain), buf.run) ELSE ToBig(plain)

MatchAt(data, pat, o) ==
    /\ o >= 0
    /\ o + Len(pat) <= Len(data)
    /\ \A j \in 1..Len(pat) : data[o + j] = pat[j]

Matches(data, pat) == {o \in 0..Len(data) : MatchAt(data, pat, o)}

Min(S) == CHOOSE x \in S : \A y \in S : x <= y

Max(S) == CHOOSE x \in S : \A y \in S : x >= y

\* String.prototype.indexOf / Buffer.prototype.lastIndexOf
indexOf(data, pat) == IF Matches(data, pat) = {} THEN -1 ELSE Min(Matches(data, pat))

lastIndexOf(data, pat) == IF Matches(data, pat) = {} THEN -1 ELSE Max(Matches(data, pat))

\* buffer.slice(from, to - 2) with `to` the offset of the byte data[to + 1]:
\* the bytes data[from + 1 .. to] without their last two bytes
RECURSIVE DropLastBytes(_, _)
DropLastBytes(buf, n) ==
    IF n = 0 \/ buf.data = <<>> THEN buf
    ELSE LET front == SubSeq(buf.data, 1, Len(buf.data) - 1)
         IN  IF buf.data[Len(buf.data)] # ZEROS
             THEN DropLastBytes(Buf(front, buf.run), n - 1)
             ELSE IF BigLT(ToBig(n), buf.run)
                  THEN Buf(buf.data, BigMinus(buf.run, n))
                  ELSE DropLastBytes(Buf(front, Big(0, 0)), n - buf.run.lo)

Normal(buf) == IF HasZeros(buf.data) THEN buf ELSE Bytes(buf.data)

slice(buf, from, to) ==
    Normal(DropLastBytes(Buf(SubSeq(buf.data, from + 1, to), buf.run), 2))

\* bufferStr.match(/filename="([^"]+)"/): the leftmost filename=" that is
\* followed by one or more bytes other than the quote and then by a quote
FilenameToken == <<"f", "i", "l", "e", "n", "a", "m", "e", "=", "DQ">>

QuoteAfter(data, o) == {q \in (o + 1)..Len(data) : data[q] = "DQ"}

FilenameStarts(data) ==
    {o \in Matches(data, FilenameToken) :
        LET from == o + Len(FilenameToken)
        IN  /\ from + 1 <= Len(data)
            /\ data[from + 1] # "DQ"
            /\ QuoteAfter(data, from) # {}}

filenameMatch(data) ==
    IF FilenameStarts(data) = {} THEN <<>>
    ELSE LET from == Min(FilenameStarts(data)) + Len(FilenameToken)
         IN  SubSeq(data, from + 1, Min(QuoteAfter(data, from)) - 1)

HeaderTerminator == <<"CR", "LF", "CR", "LF">>

\* The 'end' handler of parseMultipart up to the call of fs.writeFile:
\* [error] or, with error = "", the filename and the bytes to write.
parseBody(boundary, buffer) ==
    LET boundaryBytes    == <<"-", "-">> \o boundary
        boundaryEndBytes == <<"-", "-">> \o boundary \o <<"-", "-">>
        filename         == filenameMatch(buffer.data)
        headerEnd        == indexOf(buffer.data, HeaderTerminator)
        fileStartIndex   == headerEnd + 4
        fileEndIndex     == IF lastIndexOf(buffer.data, boundaryBytes) # -1
                            THEN lastIndexOf(buffer.data, boundaryBytes)
                            ELSE lastIndexOf(buffer.data, boundaryEndBytes)
    IN  IF headerEnd = -1
        THEN [error |-> "Invalid multipart format", filename |-> <<>>,
              fileData |-> Bytes(<<>>)]
        ELSE IF fileEndIndex = -1 \/ fileStartIndex >= fileEndIndex
        THEN [error |-> "Could not find file boundaries", filename |-> <<>>,
              fileData |-> Bytes(<<>>)]
        ELSE [error |-> "", filename |-> filename,
              fileData |-> slice(buffer, fileStartIndex, fileEndIndex)]

\* The checks of parseMultipart on the Content-Type header.  A content type
\* is [multipart, boundary]: whether the header holds 'multipart/form-data',
\* and the text after 'boundary=' (<<>> when there is none).
contentTypeError(contentType) ==
    IF ~contentType.multipart THEN "Not multipart data"
    ELSE IF contentType.boundary = <<>> THEN "No boundary found"
    ELSE ""

\* The body --B CRLF <headers> CRLF CRLF P CRLF --B--
Framed(boundary, headers, payload) ==
    <<"-", "-">> \o boundary \o <<"CR", "LF">> \o headers \o HeaderTerminator
        \o payload \o <<"CR", "LF", "-", "-">> \o boundary \o <<"-", "-">>

FilenameHeader(name) == <<"X", ":", " ">> \o FilenameToken \o name \o <<"DQ">>

-----------------------------------------------------------------------------
(* The metadata store and the blob directory                               *)
(*                                                                         *)
(* files is the files array held by cloudvault-data.json, disk maps the    *)
(* path of every blob under uploads/ to its bytes, now is Date.now().      *)
(* A record is [id, name, type, size, path] (its date is left out: no      *)
(* handler reads it).  A path is [uid, name]: the unique prefix and the    *)
(* file name; generateUniqueId is taken to return a fresh value each time  *)
(* (the serial number of the request), uid 0 marks the three sample paths. *)

Path(uid, name) == [uid |-> uid, name |-> name]

SizeStr(num, unit) == [num |-> num, unit |-> unit]

FileRecord(id, name, type, size, path) ==
    [id |-> id, name |-> name, type |-> type, size |-> size, path |-> path]

SampleFiles ==
    << FileRecord(1, <<"Project_Report.pdf">>, <<"pdf">>, SizeStr(240, "MB"),
                  Path(0, <<"project-report.pdf">>)),
       FileRecord(2, <<"Vacation_Photos.zip">>, <<"zip">>, SizeStr(1520, "MB"),
                  Path(0, <<"vacation-photos.zip">>)),
       FileRecord(3, <<"Financial_Spreadsheet.xlsx">>, <<"xlsx">>, SizeStr(110, "MB"),
                  Path(0, <<"financial-spreadsheet.xlsx">>)) >>

\* a loadData that parses the data file once, at startup, and returns that copy
loadDataCached(readOk) == IF readOk THEN SampleFiles ELSE <<>>

\* loadData: the files of the data file, or none when it cannot be read
loadData(readOk) == IF readOk THEN files ELSE <<>>

\* a saveData whose failed write has replaced the data file all the same
saveDataTorn(data, writeOk) == [files |-> data, ok |-> writeOk]

\* saveData(data): the files of the data file afterwards, and its result
saveData(data, writeOk) ==
    [files |-> IF writeOk THEN data ELSE files, ok |-> writeOk]

\* in hundredths of a byte
getTotalStorageUsed(readOk) == SumSizes(loadData(readOk))

totalBytes == Big(25 * 1024, 0)

\* usedBytes + fileSize >= totalBytes
quotaExceededAtCapacity(usedBytes, fileSize) ==
    BigLE(Hundredths(totalBytes), BigAdd(usedBytes, Hundredths(fileSize)))

\* usedBytes + fileSize > totalBytes
quotaExceeded(usedBytes, fileSize) ==
    BigLT(Hundredths(totalBytes), BigAdd(usedBytes, Hundredths(fileSize)))

Unknown == <<"u", "n", "k", "n", "o", "w", "n">>

\* originalname.split('.').pop() || 'unknown'
fileType(originalname) ==
    LET dots == {j \in 1..Len(originalname) : originalname[j] = "."}
        last == IF dots = {} THEN originalname
                ELSE SubSeq(originalname, Max(dots) + 1, Len(originalname))
    IN  IF last = <<>> THEN Unknown ELSE last

\* data.files.find(f => f.id === fileId) / findIndex: 0 when there is none
findIndex(fs, fileId) ==
    IF \E j \in 1..Len(fs) : fs[j].id = fileId
    THEN Min({j \in 1..Len(fs) : fs[j].id = fileId})
    ELSE 0

\* a splice that removes nothing
spliceNone(fs, j) == fs

\* data.files.splice(fileIndex, 1)
splice(fs, j) == SubSeq(fs, 1, j - 1) \o SubSeq(fs, j + 1, Len(fs))

writeBlob(d, path, data) == (path :> data) @@ d

unlinkBlob(d, path) == [p \in DOMAIN d \ {path} |-> d[p]]

-----------------------------------------------------------------------------
(* Connections.  conn[c] is the request being served on connection c:      *)
(* its input, the locals its callbacks close over, the callback it waits   *)
(* for (pc) and its response.                                              *)

Conns == {"c1", "c2"}

NoPath == Path(0, <<>>)

NoRecord == FileRecord(0, <<>>, <<>>, SizeStr(0, "Bytes"), NoPath)

NoResponse ==
    [status |-> 0, text |-> "", headersSent |-> FALSE, finished |-> FALSE,
     ends |-> 0, length |-> Big(0, 0), content |-> Bytes(<<>>)]

NoContentType == [multipart |-> FALSE, boundary |-> <<>>]

Idle ==
    [op |-> "none", pc |-> "idle", contentType |-> NoContentType,
     body |-> Bytes(<<>>), fileId |-> 0, originalname |-> <<>>, path |-> NoPath,
     fileData |-> Bytes(<<>>), rec |-> NoRecord, res |-> NoResponse]

\* sendJSON(res, data, statusCode): writeHead and end
sendJSON(res, text, statusCode) ==
    [res EXCEPT !.status = statusCode, !.text = text, !.headersSent = TRUE,
                !.finished = TRUE, !.ends = @ + 1]

Free(c) == conn[c].pc \in {"idle", "done"}

\* A new request is labelled c1 when c1 is free: c2 serves a request that
\* arrives while another one is in progress.
Accepting(c) == Free(c) /\ (c = "c1" \/ ~Free("c1"))

Answer(c, r, text, statusCode) ==
    conn' = [conn EXCEPT ![c] = [r EXCEPT !.pc = "done",
                                          !.res = sendJSON(r.res, text, statusCode)]]

-----------------------------------------------------------------------------
(* Bounds and inputs                                                       *)

MaxRequests == 3

MaxTicks == 1

MaxBoundaryLen == 2

MaxPayloadLen == 4

ClockStart == 100

Boundary == <<"B">>

NotMultipart == [multipart |-> FALSE, boundary |-> <<>>]

NoBoundary == [multipart |-> TRUE, boundary |-> <<>>]

Multipart(boundary) == [multipart |-> TRUE, boundary |-> boundary]

NameXBin == <<"x", ".", "b", "i", "n">>

\* a well-framed body whose payload is `run` NUL bytes
ZeroBody(run) == Buf(Framed(Boundary, FilenameHeader(NameXBin), <<ZEROS>>), run)

SmallBody == Bytes(Framed(Boundary, FilenameHeader(NameXBin), <<"h", "i">>))

\* 1029 MB, formatted as "1 GB"
BodyA == ZeroBody(Big(1029, 0))

\* 24572.5 MB, formatted as "24 GB"
BodyB == ZeroBody(Big(24572, Limb \div 2))

\* no header terminator
NoTerminatorBody == Bytes(<<"-", "-">> \o Boundary \o <<"CR", "LF", "h", "i">>)

\* no boundary after the header terminator
NoRangeBody == Bytes(<<"-", "-">> \o Boundary \o HeaderTerminator \o <<"h", "i">>)

UploadInputs ==
    {[contentType |-> NotMultipart, body |-> SmallBody],
     [contentType |-> NoBoundary, body |-> SmallBody]}
    \cup {[contentType |-> Multipart(Boundary), body |-> b] :
            b \in {SmallBody, BodyA, BodyB, NoTerminatorBody, NoRangeBody}}

\* Inputs of the decoder on its own: every boundary over BoundaryBytes, every
\* payload over PayloadBytes, framed with a header block naming "a.txt".
BoundaryBytes == {"-", "B"}

PayloadBytes == {"CR", "LF", "-", "B"}

RECURSIVE SeqsUpTo(_, _)
SeqsUpTo(S, n) ==
    IF n = 0 THEN {<<>>}
    ELSE SeqsUpTo(S, n - 1)
         \cup {Append(q, x) : q \in {q \in SeqsUpTo(S, n - 1) : Len(q) = n - 1}, x \in S}

DecodeBoundaries == SeqsUpTo(BoundaryBytes, MaxBoundaryLen) \ {<<>>}

DecodePayloads == SeqsUpTo(PayloadBytes, MaxPayloadLen)

NameATxt == <<"a", ".", "t", "x", "t">>

DecodeInputs ==
    {[contentType |-> Multipart(b),
      body |-> Bytes(Framed(b, FilenameHeader(NameATxt), p))] :
        b \in DecodeBoundaries, p \in DecodePayloads}

\* Inputs of the decoder with one part of any shape: a header block that
\* names a file (every name over NameBytes), names none, or holds
\* filename=""; a payload of padding, with or without a filename="p" token
\* in it; a closing delimiter with or without the CR LF in front of it.
MaxNameLen == 3

MaxPadLen == 2

NameBytes == {"a", "."}

PartNames == SeqsUpTo(NameBytes, MaxNameLen)

PartHeaders == {<<"X", ":", " ", "y">>} \cup {FilenameHeader(n) : n \in PartNames}

Padding == SeqsUpTo({"z"}, MaxPadLen)

PayloadToken == FilenameToken \o <<"p", "DQ">>

PartPayloads == Padding \cup {pre \o PayloadToken \o post : pre, post \in Padding}

PartTails ==
    {<<"CR", "LF", "-", "-">> \o Boundary \o <<"-", "-">>,
     <<"-", "-">> \o Boundary \o <<"-", "-">>}

PartInputs ==
    {[contentType |-> Multipart(Boundary),
      body |-> Bytes(<<"-", "-">> \o Boundary \o <<"CR", "LF">> \o h
                       \o HeaderTerminator \o p \o t)] :
        h \in PartHeaders, p \in PartPayloads, t \in PartTails}

\* parseBody of every input, computed once
Decoded ==
    [u \in UploadInputs \cup DecodeInputs \cup PartInputs |->
        parseBody(u.contentType.boundary, u.body)]

\* ids asked for: a sample record, the first upload, no record
RequestIds == {2, ClockStart, 0}

\* outcomes of reading the data file
ReadOutcomes == {TRUE}

\* codec is one run of the size codec: the byte count given to
\* formatFileSize, the size string it returns, and what parseFileSize makes
\* of that string (in hundredths of a byte)
NoCodec ==
    [pc |-> "none", bytes |-> Big(0, 0), sizeStr |-> SizeStr(0, "Bytes"),
     parsed |-> Big(0, 0)]

-----------------------------------------------------------------------------
(* Startup: the data file is created with the sample records (their blobs  *)
(* are not created), the uploads directory is empty.                       *)

Init ==
    /\ files = SampleFiles
    /\ disk = << >>
    /\ now = ClockStart
    /\ conn = [c \in Conns |-> Idle]
    /\ nreq = 0
    /\ codec = NoCodec

-----------------------------------------------------------------------------
(* POST /api/upload                                                        *)

\* The request arrives, its body ends, parseMultipart decodes it and calls
\* fs.writeFile.  The error text is err.message ('Upload failed: ' in front).
ReceiveUpload(c, u) ==
    /\ Accepting(c)
    /\ LET r == [Idle EXCEPT !.op = "upload", !.contentType = u.contentType,
                             !.body = u.body]
           parsed == Decoded[u]
       IN  IF contentTypeError(u.contentType) # ""
           THEN Answer(c, r, contentTypeError(u.contentType), 500)
           ELSE IF parsed.error # ""
           THEN Answer(c, r, parsed.error, 500)
           ELSE conn' = [conn EXCEPT ![c] =
                           [r EXCEPT !.pc = "write",
                                     !.originalname = parsed.filename,
                                     !.path = Path(nreq + 1, parsed.filename),
                                     !.fileData = parsed.fileData]]
    /\ nreq' = nreq + 1
    /\ UNCHANGED <<files, disk, now, codec>>

\* fs.writeFile completes and the callback of parseMultipart runs: quota
\* check, record, load, push, save, response.  t is Date.now(); of the
\* blob write, the unlink and the save at most one is reached and fails.
WriteFileDone(c, t, fault, readOk1, readOk2) ==
    /\ conn[c].pc = "write"
    /\ now' = t
    /\ LET r         == conn[c]
           writeOk   == fault # "write"
           saveOk    == fault # "save"
           unlinkOk  == fault # "unlink"
           written   == writeBlob(disk, r.path, r.fileData)
           usedBytes == getTotalStorageUsed(readOk1)
           fileSize  == ByteLength(r.fileData)
           newFile   == FileRecord(t, r.originalname, fileType(r.originalname),
                                   formatFileSize(fileSize), r.path)
           saved     == saveData(Append(loadData(readOk2), newFile), saveOk)
       IN  IF ~writeOk
           THEN /\ Answer(c, r, "write error", 500)
                /\ UNCHANGED <<files, disk>>
           ELSE IF quotaExceeded(usedBytes, fileSize)
           THEN /\ disk' = IF unlinkOk THEN unlinkBlob(written, r.path) ELSE written
                /\ Answer(c, r, "Storage limit exceeded (25GB)", 400)
                /\ UNCHANGED files
           ELSE /\ disk' = written
                /\ files' = saved.files
                /\ IF saved.ok
                   THEN Answer(c, [r EXCEPT !.rec = newFile],
                               "File uploaded successfully", 200)
                   ELSE Answer(c, r, "Failed to save file info", 500)
    /\ UNCHANGED <<nreq, codec>>

-----------------------------------------------------------------------------
(* GET /api/download/<id>                                                  *)

ReceiveDownload(c, fileId, readOk) ==
    /\ Accepting(c)
    /\ LET r    == [Idle EXCEPT !.op = "download", !.fileId = fileId]
           data == loadData(readOk)
           j    == findIndex(data, fileId)
       IN  IF j = 0
           THEN Answer(c, r, "File not found in database", 404)
           ELSE conn' = [conn EXCEPT ![c] =
                           [r EXCEPT !.pc = "access", !.rec = data[j],
                                     !.path = data[j].path]]
    /\ nreq' = nreq + 1
    /\ UNCHANGED <<files, disk, now, codec>>

\* the callback of fs.access
AccessDone(c) ==
    /\ conn[c].pc = "access"
    /\ IF conn[c].path \in DOMAIN disk
       THEN conn' = [conn EXCEPT ![c].pc = "stat"]
       ELSE Answer(c, conn[c], "File not found on disk", 404)
    /\ UNCHANGED <<files, disk, now, nreq, codec>>

\* the callback of fs.stat: res.writeHead(200, ...) and the read stream
StatDone(c) ==
    /\ conn[c].pc = "stat"
    /\ IF conn[c].path \in DOMAIN disk
       THEN conn' = [conn EXCEPT ![c].pc = "stream",
                                 ![c].res.status = 200,
                                 ![c].res.headersSent = TRUE,
                                 ![c].res.length = ByteLength(disk[conn[c].path])]
       ELSE Answer(c, conn[c], "Error accessing file", 500)
    /\ UNCHANGED <<files, disk, now, nreq, codec>>

\* a pipe that serves the blob once and removes it
StreamEndConsuming(c) ==
    /\ conn[c].pc = "stream"
    /\ conn[c].path \in DOMAIN disk
    /\ conn' = [conn EXCEPT ![c].pc = "done",
                            ![c].res.content = disk[conn[c].path],
                            ![c].res.finished = TRUE,
                            ![c].res.ends = @ + 1]
    /\ disk' = unlinkBlob(disk, conn[c].path)
    /\ UNCHANGED <<files, now, nreq, codec>>

\* readStream.pipe(res): the blob is read and the response ended
StreamEnd(c) ==
    /\ conn[c].pc = "stream"
    /\ conn[c].path \in DOMAIN disk
    /\ conn' = [conn EXCEPT ![c].pc = "done",
                            ![c].res.content = disk[conn[c].path],
                            ![c].res.finished = TRUE,
                            ![c].res.ends = @ + 1]
    /\ UNCHANGED <<files, disk, now, nreq, codec>>

\* readStream.on('error'): the blob cannot be opened
StreamError(c) ==
    /\ conn[c].pc = "stream"
    /\ conn[c].path \notin DOMAIN disk
    /\ IF ~conn[c].res.headersSent
       THEN conn' = [conn EXCEPT ![c].pc = "error",
                        ![c].res = sendJSON(conn[c].res, "Error reading file", 500)]
       ELSE conn' = [conn EXCEPT ![c].pc = "error"]
    /\ UNCHANGED <<files, disk, now, nreq, codec>>

-----------------------------------------------------------------------------
(* DELETE /api/files/<id>                                                  *)

ReceiveDelete(c, fileId, readOk, saveOk) ==
    /\ Accepting(c)
    /\ LET r     == [Idle EXCEPT !.op = "delete", !.fileId = fileId]
           data  == loadData(readOk)
           j     == findIndex(data, fileId)
           saved == saveData(splice(data, j), saveOk)
       IN  IF j = 0
           THEN /\ Answer(c, r, "File not found", 404)
                /\ UNCHANGED files
           ELSE IF ~saved.ok
           THEN /\ Answer(c, [r EXCEPT !.rec = data[j], !.path = data[j].path],
                          "Failed to update database", 500)
                /\ files' = saved.files
           ELSE /\ conn' = [conn EXCEPT ![c] =
                              [r EXCEPT !.pc = "unlink", !.rec = data[j],
                                        !.path = data[j].path]]
                /\ files' = saved.files
    /\ nreq' = nreq + 1
    /\ UNCHANGED <<disk, now, codec>>

\* fs.unlink completes (it fails when the blob is missing) and its callback
\* answers
UnlinkDone(c, unlinkOk) ==
    /\ conn[c].pc = "unlink"
    /\ disk' = IF unlinkOk THEN unlinkBlob(disk, conn[c].path) ELSE disk
    /\ Answer(c, conn[c], "File deleted successfully", 200)
    /\ UNCHANGED <<files, now, nreq, codec>>

-----------------------------------------------------------------------------
\* Date.now(): the last reading, or a later one
Clock == {t \in now..(now + 1) : t <= ClockStart + MaxTicks}

Faults == {"none", "write", "save", "unlink"}

Arrive(c) ==
    /\ nreq < MaxRequests
    /\ \/ \E u \in UploadInputs : ReceiveUpload(c, u)
       \/ \E id \in RequestIds, readOk \in ReadOutcomes :
              ReceiveDownload(c, id, readOk)
       \/ \E id \in RequestIds, readOk \in ReadOutcomes, saveOk \in BOOLEAN :
              ReceiveDelete(c, id, readOk, saveOk)

Callback(c) ==
    \/ \E t \in Clock, fault \in Faults, readOk1, readOk2 \in ReadOutcomes :
           WriteFileDone(c, t, fault, readOk1, readOk2)
    \/ AccessDone(c)
    \/ StatDone(c)
    \/ StreamEnd(c)
    \/ StreamError(c)
    \/ \E unlinkOk \in BOOLEAN : UnlinkDone(c, unlinkOk)

Next == \E c \in Conns : Arrive(c) \/ Callback(c)

Spec == Init /\ [][Next]_vars

-----------------------------------------------------------------------------
(* The handlers with a data file that may fail to be read or parsed:       *)
(* loadData then returns no files.                                         *)

ArriveOrReadFault(c) ==
    /\ nreq < MaxRequests
    /\ \/ \E u \in UploadInputs : ReceiveUpload(c, u)
       \/ \E id \in RequestIds, readOk \in BOOLEAN :
              ReceiveDownload(c, id, readOk)
       \/ \E id \in RequestIds, readOk \in BOOLEAN, saveOk \in BOOLEAN :
              ReceiveDelete(c, id, readOk, saveOk)

CallbackOrReadFault(c) ==
    \/ \E t \in Clock, fault \in Faults, readOk1, readOk2 \in BOOLEAN :
           WriteFileDone(c, t, fault, readOk1, readOk2)
    \/ AccessDone(c)
    \/ StatDone(c)
    \/ StreamEnd(c)
    \/ StreamError(c)
    \/ \E unlinkOk \in BOOLEAN : UnlinkDone(c, unlinkOk)

NextReadFault == \E c \in Conns : ArriveOrReadFault(c) \/ CallbackOrReadFault(c)

SpecReadFault == Init /\ [][NextReadFault]_vars

-----------------------------------------------------------------------------
(* The decoder on its own: one upload on connection c1, its body drawn     *)
(* from DecodeInputs.                                                      *)

DecodeArrive == nreq = 0 /\ \E u \in DecodeInputs : ReceiveUpload("c1", u)

DecodeWrite ==
    \E t \in Clock, fault \in Faults, readOk1, readOk2 \in ReadOutcomes :
        WriteFileDone("c1", t, fault, readOk1, readOk2)

NextDecode == DecodeArrive \/ DecodeWrite

SpecDecode == Init /\ [][NextDecode]_vars

-----------------------------------------------------------------------------
(* The size codec on its own: a byte count n is formatted, and the string  *)
(* parsed back.  The counts are m * 1024^e + d around every unit of the    *)
(* scale and one step above it (e = 4), and 0.                             *)

MaxMantissa == 5

MaxOffset == 2

\* m * 1024^e + d as a byte count, for m * 1024^e + d >= 0
ByteCount(m, e, d) ==
    LET base == IF e < 2 THEN ToBig(m * Pow(k, e)) ELSE Big(m * Pow(k, e - 2), 0)
    IN  IF d >= 0 THEN BigAdd(base, ToBig(d)) ELSE BigMinus(base, -d)

CodecInputs ==
    {ByteCount(m, e, d) : m \in 1..MaxMantissa, e \in 0..Len(sizes),
                          d \in 0..MaxOffset}
    \cup {ByteCount(m, e, -d) : m \in 1..MaxMantissa, e \in 1..Len(sizes),
                                d \in 1..MaxOffset}
    \cup {Big(0, 0)}

InitCodec ==
    /\ files = SampleFiles
    /\ disk = << >>
    /\ now = ClockStart
    /\ conn = [c \in Conns |-> Idle]
    /\ nreq = 0
    /\ \E n \in CodecInputs : codec = [NoCodec EXCEPT !.pc = "input", !.bytes = n]

Format ==
    /\ codec.pc = "input"
    /\ codec' = [codec EXCEPT !.pc = "formatted",
                              !.sizeStr = formatFileSize(codec.bytes)]
    /\ UNCHANGED <<files, disk, now, conn, nreq>>

Parse ==
    /\ codec.pc = "formatted"
    /\ codec' = [codec EXCEPT !.pc = "parsed",
                              !.parsed = parseFileSize(codec.sizeStr)]
    /\ UNCHANGED <<files, disk, now, conn, nreq>>

NextCodec == Format \/ Parse

SpecCodec == InitCodec /\ [][NextCodec]_vars

-----------------------------------------------------------------------------
(* The decoder and the upload callback on one upload whose body is drawn   *)
(* from PartInputs.                                                        *)

PartArrive == nreq = 0 /\ \E u \in PartInputs : ReceiveUpload("c1", u)

PartWrite ==
    \E t \in Clock, fault \in Faults, readOk1, readOk2 \in ReadOutcomes :
        WriteFileDone("c1", t, fault, readOk1, readOk2)

NextParts == PartArrive \/ PartWrite

SpecParts == Init /\ [][NextParts]_vars

-----------------------------------------------------------------------------
(* Properties                                                              *)

Records == {files[j] : j \in 1..Len(files)}

Capacity100 == Big(25 * 1024 * 100, 0)

\* C1: the decoded sizes (parseFileSize of each record's size string) of the
\* records in the persisted snapshot never sum to more than the capacity of
\* 25 * 1024^3 bytes.
C1_DecodedSizesWithinCapacity == BigLE(SumSizes(files), Capacity100)

\* C8: every record of the persisted snapshot has a path that refers to a
\* blob on disk, unless its deletion is in progress; this holds of the state
\* created at startup too.
C8_RecordsHaveBlobs ==
    \A j \in 1..Len(files) :
        \/ files[j].path \in DOMAIN disk
        \/ \E c \in Conns : /\ conn[c].op = "delete"
                            /\ conn[c].pc = "unlink"
                            /\ conn[c].path = files[j].path

\* C9: the ids of the records in the persisted snapshot are pairwise
\* distinct, also for uploads whose records are built at the same reading
\* of the clock.
C9_IdsDistinct ==
    \A i, j \in 1..Len(files) : files[i].id = files[j].id => i = j

RECURSIVE StoredBytes(_)
StoredBytes(fs) ==
    IF fs = <<>> THEN Big(0, 0)
    ELSE LET f == fs[Len(fs)]
         IN  BigAdd(StoredBytes(SubSeq(fs, 1, Len(fs) - 1)),
                    IF f.path \in DOMAIN disk THEN ByteLength(disk[f.path])
                    ELSE Big(0, 0))

\* C10: the byte lengths of the blobs on disk that the records of the
\* persisted snapshot refer to never sum to more than the capacity.
C10_StoredBytesWithinCapacity == BigLE(StoredBytes(files), totalBytes)

QuotaText == "Storage limit exceeded (25GB)"

\* the callback of fs.writeFile runs on connection c in this step, the blob
\* having been written
QuotaChecked(c) ==
    /\ conn[c].pc = "write"
    /\ conn'[c].pc = "done"
    /\ conn'[c].res.text # "write error"

\* current decoded usage + the new blob's byte length > capacity, in
\* hundredths of a byte
CandidateExceeds(c) ==
    BigLT(Capacity100,
          BigAdd(SumSizes(files), Hundredths(ByteLength(conn[c].fileData))))

DeleteArrives(c) == Accepting(c) /\ nreq' = nreq + 1 /\ conn'[c].op = "delete"

\* C3: when persisting the snapshot fails during a delete of an existing id
\* (the delete is answered 500), the response is the persistence failure,
\* the record is still in the persisted snapshot, no blob is touched and no
\* unlink is pending.
C3_DeleteSaveFailureKeepsRecord ==
    [][\A c \in Conns : DeleteArrives(c) /\ conn'[c].res.status = 500 =>
          /\ conn'[c].res.text = "Failed to update database"
          /\ conn'[c].pc = "done"
          /\ files' = files
          /\ findIndex(files', conn'[c].fileId) # 0
          /\ disk' = disk]_vars

C3_SaveFailedOnDelete ==
    \E c \in Conns : /\ conn[c].op = "delete"
                     /\ conn[c].pc = "done"
                     /\ conn[c].res.status = 500
                     /\ conn[c].rec \in Records
                     /\ conn[c].rec.path \in DOMAIN disk

UploadSucceeds(c) ==
    /\ conn[c].pc = "write"
    /\ conn'[c].pc = "done"
    /\ conn'[c].res.status = 200

Uploaded(c) ==
    conn[c].op = "upload" /\ conn[c].pc = "done" /\ conn[c].res.status = 200

\* the upload on c2 arrived while the upload on c1 was in progress
Overlapping == conn["c1"].path.uid < conn["c2"].path.uid

FramedPayload(b, body) ==
    SubSeq(body.data, Len(b) + Len(FilenameHeader(NameATxt)) + 9,
           Len(body.data) - Len(b) - 6)

\* C4: for every boundary B and payload P, decoding the body
\* --B CRLF <headers with filename="a.txt"> CRLF CRLF P CRLF --B-- fails with
\* no framing error, yields the original name a.txt, and the blob handed to
\* the file system, and found on disk afterwards, holds exactly the bytes P.
C4_DecoderYieldsPayload ==
    LET r == conn["c1"]
        P == Bytes(FramedPayload(r.contentType.boundary, r.body))
    IN  r.op = "upload" =>
            /\ r.pc \in {"write", "done"}
            /\ r.res.text \notin {"Invalid multipart format",
                                  "Could not find file boundaries"}
            /\ r.originalname = NameATxt
            /\ r.pc = "write" => r.fileData = P
            /\ r.path \in DOMAIN disk => disk[r.path] = P

\* C6: every request gets exactly one finished response: a connection with
\* a request is either still due a callback or its response has been ended,
\* once.
C6_EveryRequestAnswered ==
    \A c \in Conns :
        conn[c].op # "none" =>
            \/ ENABLED Callback(c)
            \/ conn[c].res.finished /\ conn[c].res.ends = 1

MalformedTexts ==
    {"Not multipart data", "No boundary found", "Invalid multipart format",
     "Could not find file boundaries"}

NotFoundTexts ==
    {"File not found in database", "File not found on disk", "File not found"}

FailureTexts ==
    {"write error", "Failed to save file info", "Failed to update database",
     "Error accessing file", "Error reading file"}

\* the status the failure classes assign to an outcome
ClassStatus(text) ==
    IF text \in MalformedTexts \cup {QuotaText} THEN 400
    ELSE IF text \in NotFoundTexts THEN 404
    ELSE IF text \in FailureTexts THEN 500
    ELSE 200

\* C7: every answered request carries the status of its outcome's class:
\* 200 success, 400 malformed framing or quota, 404 unknown id or missing
\* blob, 500 persistence or blob i/o failure.
C7_StatusMatchesFailureClass ==
    \A c \in Conns :
        conn[c].res.finished =>
            conn[c].res.status = ClassStatus(conn[c].res.text)

\* the byte factor of the unit formatFileSize chooses for n, in hundredths
\* of 0.01 of it (that is, the factor itself); the top unit above the scale
UnitFactor(n) ==
    LET i == IF n = Big(0, 0) THEN 0 ELSE UnitIndex(n)
    IN  CASE i = 0 -> ToBig(1)
          [] i = 1 -> ToBig(k)
          [] i = 2 -> Big(1, 0)
          [] OTHER -> Big(k, 0)

\* C11: for every byte count n (0 and counts at or above 1024^4 included)
\* parseFileSize(formatFileSize(n)) differs from n by at most 0.01 times the
\* byte factor of the unit formatFileSize chooses.
C11_RoundTripWithinTolerance ==
    codec.pc = "parsed" =>
        LET n100 == Hundredths(codec.bytes)
            tol  == UnitFactor(codec.bytes)
        IN  /\ BigLE(codec.parsed, BigAdd(n100, tol))
            /\ BigLE(n100, BigAdd(codec.parsed, tol))

\* the same below 1024^4, where the scale has a unit
C11_RoundTripWithinScale ==
    codec.pc = "parsed" /\ UnitIndex(BigAdd(codec.bytes, ToBig(1))) < Len(sizes) =>
        C11_RoundTripWithinTolerance

\* connection c takes a step of a download: the request arrives or one of
\* its callbacks runs
DownloadStep(c) == conn'[c] # conn[c] /\ conn'[c].op = "download"

Downloaded(c) ==
    /\ conn[c].op = "download"
    /\ conn[c].res.finished
    /\ conn[c].res.status = 200

\* C12: no step of a download changes the persisted snapshot or the blobs on
\* disk; two completed downloads of the same id that were served the same
\* record carry the same content and the same declared Content-Length, which
\* is the length of that content.
C12_DownloadChangesNothing ==
    /\ [][\A c \in Conns : DownloadStep(c) => files' = files /\ disk' = disk]_vars
    /\ [](\A c, d \in Conns :
            Downloaded(c) /\ Downloaded(d) /\ conn[c].fileId = conn[d].fileId
                          /\ conn[c].rec = conn[d].rec =>
                /\ conn[c].res.content = conn[d].res.content
                /\ conn[c].res.length = conn[d].res.length
                /\ conn[c].res.length = ByteLength(conn[c].res.content))

C12_TwoDownloadsServed ==
    /\ Downloaded("c1") /\ Downloaded("c2")
    /\ conn["c1"].fileId = conn["c2"].fileId
    /\ conn["c1"].res.content = Bytes(<<"h", "i">>)
    /\ conn["c2"].res.content = Bytes(<<"h", "i">>)
    /\ conn["c1"].path \in DOMAIN disk

\* the delete on connection c has saved the snapshot in this step
DeleteSaved(c) == DeleteArrives(c) /\ conn'[c].pc = "unlink"

\* the callback of the delete's fs.unlink runs on connection c in this step
DeleteUnlinked(c) ==
    conn[c].op = "delete" /\ conn[c].pc = "unlink" /\ conn'[c].pc = "done"

\* C13: a delete of an existing id first removes the record and saves the
\* snapshot, touching no blob; a blob a record refers to is never removed;
\* after the successful save the callback of the unlink answers with
\* success, and the record is absent from the persisted snapshot, whether
\* the unlink removed the blob or failed.
C13_DeleteSavesThenUnlinks ==
    /\ [][\A c \in Conns : DeleteSaved(c) =>
             /\ findIndex(files, conn'[c].fileId) # 0
             /\ conn'[c].rec = files[findIndex(files, conn'[c].fileId)]
             /\ files' = SubSeq(files, 1, findIndex(files, conn'[c].fileId) - 1)
                           \o SubSeq(files, findIndex(files, conn'[c].fileId) + 1,
                                     Len(files))
             /\ conn'[c].rec \notin {files'[j] : j \in 1..Len(files')}
             /\ disk' = disk]_vars
    /\ [][\A p \in DOMAIN disk \ DOMAIN disk' :
             \A j \in 1..Len(files) : files[j].path # p]_vars
    /\ [][\A c \in Conns : DeleteUnlinked(c) =>
             /\ conn'[c].res.status = 200
             /\ conn'[c].res.text = "File deleted successfully"
             /\ conn'[c].res.finished
             /\ files' = files
             /\ conn[c].rec \notin Records
             /\ DOMAIN disk \ DOMAIN disk' \subseteq {conn[c].path}]_vars

\* a delete answered with success although its unlink failed: the blob is
\* still on disk, the record is gone
C13_DeletedBlobLeft ==
    \E c \in Conns : /\ conn[c].op = "delete"
                     /\ conn[c].pc = "done"
                     /\ conn[c].res.status = 200
                     /\ conn[c].path \in DOMAIN disk
                     /\ conn[c].rec \notin Records

SaveFailedText == "Failed to save file info"

\* the upload on connection c has passed the quota check and is answered
\* with a failure in this step
UploadSaveFails(c) ==
    QuotaChecked(c) /\ ~CandidateExceeds(c) /\ conn'[c].res.status # 200

UploadSaveFailed(c) ==
    /\ conn[c].op = "upload"
    /\ conn[c].pc = "done"
    /\ conn[c].res.text = SaveFailedText

\* C14: an upload that passed the quota check and whose save fails is
\* answered 500 with the persistence failure, leaves the persisted snapshot
\* as it was, without a record for the upload, and leaves the blob it wrote
\* on disk; the blob stays there, referred to by no record.
C14_UploadSaveFailureLeavesOrphan ==
    /\ [][\A c \in Conns : UploadSaveFails(c) =>
             /\ conn'[c].res.status = 500
             /\ conn'[c].res.text = SaveFailedText
             /\ conn'[c].res.finished
             /\ files' = files
             /\ disk' = writeBlob(disk, conn[c].path, conn[c].fileData)]_vars
    /\ [](\A c \in Conns : UploadSaveFailed(c) =>
             /\ conn[c].path \in DOMAIN disk
             /\ disk[conn[c].path] = conn[c].fileData
             /\ \A f \in Records : f.path # conn[c].path)

C14_OrphanLeft ==
    \E c \in Conns : /\ UploadSaveFailed(c)
                     /\ conn[c].res.status = 500
                     /\ conn[c].path \in DOMAIN disk
                     /\ \A f \in Records : f.path # conn[c].path

\* the part header block of a body: its bytes before the first CR LF CR LF
HeaderBlock(data) == SubSeq(data, 1, indexOf(data, HeaderTerminator))

\* the payload was decoded and handed to fs.writeFile
BlobWritten(r) == r.op = "upload" /\ (r.pc = "write" \/ r.path \in DOMAIN disk)

\* C15: when the header block of the part holds no filename="..." token,
\* the original name of a decoded upload is the empty string, whatever
\* follows the header block.
C15_FilenameFromHeaderBlock ==
    LET r == conn["c1"]
    IN  BlobWritten(r) /\ FilenameStarts(HeaderBlock(r.body.data)) = {} =>
            r.originalname = <<>>

\* the suffix of a name after its last dot; "unknown" when the name has no
\* dot, ends in a dot or is empty
SuffixOrUnknown(name) ==
    LET dots == {j \in 1..Len(name) : name[j] = "."}
    IN  IF dots = {} \/ name = <<>> \/ name[Len(name)] = "."
        THEN Unknown
        ELSE SubSeq(name, Max(dots) + 1, Len(name))

\* C16: the type of the record created by an accepted upload is the suffix
\* of the original name after its last dot, and "unknown" when the name has
\* no dot, ends in a dot or is empty.
C16_TypeIsSuffixOrUnknown ==
    LET r == conn["c1"]
    IN  Uploaded("c1") /\ r.rec \in Records =>
            /\ r.rec.name = r.originalname
            /\ r.rec.type = SuffixOrUnknown(r.originalname)

\* the offsets of the claim: start is 4 past the first header terminator,
\* end the offset of the last --boundary
RangeStart(r) == indexOf(r.body.data, HeaderTerminator) + 4

RangeEnd(r) == lastIndexOf(r.body.data, <<"-", "-">> \o r.contentType.boundary)

\* C17: whenever the decoder writes a blob, end - 2 >= start and the blob
\* has exactly end - 2 - start bytes.
C17_PayloadRangeWellFormed ==
    LET r == conn["c1"]
    IN  BlobWritten(r) =>
            /\ RangeEnd(r) - 2 >= RangeStart(r)
            /\ ByteLength(r.fileData) = ToBig(RangeEnd(r) - 2 - RangeStart(r))

\* C18: an accepted upload only appends: the records persisted before its
\* save are all persisted after it, in the same order, in front of the new
\* record, also when the upload's load of the snapshot fails.
C18_UploadOnlyAppends ==
    [][\A c \in Conns : UploadSucceeds(c) =>
          /\ Len(files') = Len(files) + 1
          /\ SubSeq(files', 1, Len(files)) = files
          /\ files'[Len(files')] = conn'[c].rec]_vars

\* the positions of the records with this id
WithId(fs, fileId) == {j \in 1..Len(fs) : fs[j].id = fileId}

\* the delete on connection c has removed its record from the snapshot
DeleteSucceeded(c) ==
    /\ conn[c].op = "delete"
    /\ conn[c].pc = "unlink" \/ conn[c].res.status = 200

====
